---- MODULE Spec2Model ----
(***************************************************************************)
(* Merkle hash tree of src/src/lib.rs: construct, root, verify, prove and  *)
(* verify_proof.                                                           *)
(*                                                                         *)
(* SHA-256 is modelled symbolically, as an ideal (collision-free) hash: a  *)
(* digest is a byte sequence of fixed length one whose single symbol       *)
(* <<"h", d>> names the byte sequence d that was hashed.  Data bytes are   *)
(* the symbols <<"b", n>>.  Concatenation of byte sequences is \o, exactly *)
(* as hash_concat chains its two arguments, so the preimage of an internal *)
(* node is an ordinary byte sequence that may also be supplied as a record.*)
(* Indices are zero-based as in the source; a TLA+ sequence s holds the    *)
(* element at source index i in s[i + 1].                                  *)
(***************************************************************************)
EXTENDS Integers, Sequences, FiniteSets

VARIABLES
    pc,           \* which call ran last / where the running call is
    input,        \* the slice given to construct
    nodes,        \* MerkleTree.nodes   (levels, leaves first)
    leaves_idx,   \* MerkleTree.leaves_idx (leaf digest -> index)
    records,      \* verify's argument `input`
    data,         \* prove's / verify_proof's argument `data`
    root_hash,    \* verify's / verify_proof's argument `root_hash`
    hashes,       \* prove's local `hashes`; verify_proof's `proof.hashes`
    level,        \* prove's loop variable `level`
    current_idx,  \* prove's local `current_idx`
    result        \* what the last call returned

vars == <<pc, input, nodes, leaves_idx, records, data, root_hash, hashes,
          level, current_idx, result>>

----------------------------------------------------------------------------
(* Bounds of the model *)

\* longest slice given to construct
MaxLeaves == 5

\* data bytes are 0 .. MaxByte
MaxByte == 1

\* longest slice given to construct when arbitrary proofs are replayed
MaxForgeLeaves == 3

\* longest arbitrary proof given to verify_proof
MaxProofLen == 2

----------------------------------------------------------------------------
(* Values *)

\* one byte of a Data vector
B(n) == <<"b", n>>

\* the records the model feeds to the tree: the empty record and the
\* one-byte records vec![i as u8] of the tests
Records == {<<>>} \cup {<<B(n)>> : n \in 0..MaxByte}

\* a record the model never puts in a tree
FreshRecord == <<B(MaxByte + 1)>>

RECURSIVE SeqsUpTo(_, _)
SeqsUpTo(S, n) ==
    IF n = 0 THEN {<<>>}
    ELSE LET shorter == SeqsUpTo(S, n - 1)
         IN  shorter \cup {Append(s, x) : s \in {t \in shorter : Len(t) = n - 1}, x \in S}

Range(s) == {s[i] : i \in 1..Len(s)}

\* Option / return values
None == <<"None">>
Some(v) == <<"Some", v>>
Panic == <<"panic">>
Bool(b) == <<"bool", b>>

----------------------------------------------------------------------------
(* Hashing primitives *)

hash_data(d) == << <<"h", d>> >>

\* hash_concat that forgets to chain its second argument
hash_concat_first_only(h1, h2) == hash_data(h1)

hash_concat(h1, h2) == hash_data(h1 \o h2)

----------------------------------------------------------------------------
(* construct *)

\* input.iter().map(hash_data).collect()
LeafHashes(in) == [i \in 1..Len(in) |-> hash_data(in[i])]

\* leaves_idx after the enumerate/insert pass: a later insert of the same
\* digest overwrites the earlier index
LeavesIdx(in) ==
    [h \in Range(LeafHashes(in)) |->
        CHOOSE i \in 0..(Len(in) - 1) :
            /\ hash_data(in[i + 1]) = h
            /\ \A j \in 0..(Len(in) - 1) : hash_data(in[j + 1]) = h => j <= i]

\* construct's reduction pairing a trailing node with itself
ConstructReduceDup(new_nodes) ==
    [j \in 1..((Len(new_nodes) + 1) \div 2) |->
        IF 2 * j > Len(new_nodes)
        THEN hash_concat(new_nodes[2 * j - 1], new_nodes[2 * j - 1])
        ELSE hash_concat(new_nodes[2 * j - 1], new_nodes[2 * j])]

\* new_nodes.chunks(2).map(..).collect() in construct
ConstructReduce(new_nodes) ==
    [j \in 1..((Len(new_nodes) + 1) \div 2) |->
        IF 2 * j > Len(new_nodes)
        THEN new_nodes[2 * j - 1]
        ELSE hash_concat(new_nodes[2 * j - 1], new_nodes[2 * j])]

RECURSIVE ConstructLoop(_, _)
ConstructLoop(ns, new_nodes) ==
    IF Len(new_nodes) > 1
    THEN ConstructLoop(Append(ns, new_nodes), ConstructReduce(new_nodes))
    ELSE Append(ns, new_nodes)

construct(in) ==
    [nodes |-> ConstructLoop(<<>>, LeafHashes(in)), leaves_idx |-> LeavesIdx(in)]

----------------------------------------------------------------------------
(* root *)

\* self.nodes.last().unwrap().get(0).unwrap().clone()
root(ns) ==
    IF Len(ns) = 0 THEN Panic
    ELSE IF Len(ns[Len(ns)]) = 0 THEN Panic
    ELSE Some(ns[Len(ns)][1])

----------------------------------------------------------------------------
(* verify *)

\* verify's reduction pairing a trailing node with itself
VerifyReduceDup(ns) ==
    [j \in 1..((Len(ns) + 1) \div 2) |->
        IF 2 * j > Len(ns)
        THEN hash_concat(ns[2 * j - 1], ns[2 * j - 1])
        ELSE hash_concat(ns[2 * j - 1], ns[2 * j])]

\* nodes.chunks(2).map(..).collect() in verify
VerifyReduce(ns) ==
    [j \in 1..((Len(ns) + 1) \div 2) |->
        IF 2 * j > Len(ns)
        THEN ns[2 * j - 1]
        ELSE hash_concat(ns[2 * j - 1], ns[2 * j])]

RECURSIVE VerifyLoop(_)
VerifyLoop(ns) == IF Len(ns) > 1 THEN VerifyLoop(VerifyReduce(ns)) ELSE ns

\* verify without the test of the claimed root on empty input
verify_empty_accepts(in, rh) ==
    IF Len(in) = 0
    THEN TRUE
    ELSE VerifyLoop(LeafHashes(in))[1] = rh

verify(in, rh) ==
    IF Len(in) = 0
    THEN Len(rh) = 0
    ELSE VerifyLoop(LeafHashes(in))[1] = rh

----------------------------------------------------------------------------
(* verify_proof *)

\* the loop body with the two orientations exchanged
VerifyProofStepSwapped(current_hash, pair) ==
    IF pair[1] = "Left"
    THEN hash_concat(current_hash, pair[2])
    ELSE hash_concat(pair[2], current_hash)

\* the loop body with the Left arm chaining the sibling with itself
VerifyProofStepTypo(current_hash, pair) ==
    IF pair[1] = "Left"
    THEN hash_concat(pair[2], pair[2])
    ELSE hash_concat(current_hash, pair[2])

\* one iteration of the for loop
VerifyProofStep(current_hash, pair) ==
    IF pair[1] = "Left"
    THEN hash_concat(pair[2], current_hash)
    ELSE hash_concat(current_hash, pair[2])

RECURSIVE VerifyProofFold(_, _)
VerifyProofFold(current_hash, proof) ==
    IF Len(proof) = 0 THEN current_hash
    ELSE VerifyProofFold(VerifyProofStep(current_hash, Head(proof)), Tail(proof))

verify_proof(d, proof, rh) == VerifyProofFold(hash_data(d), proof) = rh

----------------------------------------------------------------------------
(* prove *)

\* a lookup that falls back to index 0 for an unknown digest
LookupOrZero(idx, h) == IF h \in DOMAIN idx THEN Some(idx[h]) ELSE Some(0)

\* self.leaves_idx.get(&hash_data(data)).copied()
Lookup(idx, h) == IF h \in DOMAIN idx THEN Some(idx[h]) ELSE None

\* the loop body pushing the node itself when it has no neighbour
ProveBodyDup(lv, idx, hs) ==
    IF idx % 2 = 0
    THEN IF idx + 1 < Len(lv)
         THEN Some(Append(hs, <<"Right", lv[idx + 2]>>))
         ELSE Some(Append(hs, <<"Right", lv[idx + 1]>>))
    ELSE IF idx - 1 < Len(lv)
         THEN Some(Append(hs, <<"Left", lv[idx]>>))
         ELSE Panic

\* the loop body tagging the neighbour with the wrong side
ProveBodySwapped(lv, idx, hs) ==
    IF idx % 2 = 0
    THEN IF idx + 1 < Len(lv)
         THEN Some(Append(hs, <<"Left", lv[idx + 2]>>))
         ELSE Some(hs)
    ELSE IF idx - 1 < Len(lv)
         THEN Some(Append(hs, <<"Right", lv[idx]>>))
         ELSE Panic

\* the body of the for loop at one level: the hashes after it, or Panic
\* when nodes[level][current_idx-1] is out of range
ProveBody(lv, idx, hs) ==
    IF idx % 2 = 0
    THEN IF idx + 1 < Len(lv)
         THEN Some(Append(hs, <<"Right", lv[idx + 2]>>))
         ELSE Some(hs)
    ELSE IF idx - 1 < Len(lv)
         THEN Some(Append(hs, <<"Left", lv[idx]>>))
         ELSE Panic

----------------------------------------------------------------------------
(* The state machine: a tree is built, then consulted *)

Init ==
    /\ pc = "init"
    /\ input = <<>>
    /\ nodes = <<>>
    /\ leaves_idx = <<>>
    /\ records = <<>>
    /\ data = <<>>
    /\ root_hash = <<>>
    /\ hashes = <<>>
    /\ level = 0
    /\ current_idx = 0
    /\ result = None

\* Every call borrows the tree immutably and keeps no state of its own
\* between calls, so the calls are independent of one another: the model
\* follows each call from the freshly built tree.
Idle == pc = "built"

ConstructFrom(Inputs) ==
    /\ pc = "init"
    /\ \E in \in Inputs :
        /\ input' = in
        /\ nodes' = construct(in).nodes
        /\ leaves_idx' = construct(in).leaves_idx
    /\ pc' = "built"
    /\ UNCHANGED <<records, data, root_hash, hashes, level, current_idx, result>>

Construct == ConstructFrom(SeqsUpTo(Records, MaxLeaves))

Root ==
    /\ Idle
    /\ pc' = "root"
    /\ result' = root(nodes)
    /\ records' = <<>> /\ data' = <<>> /\ root_hash' = <<>> /\ hashes' = <<>>
    /\ level' = 0 /\ current_idx' = 0
    /\ UNCHANGED <<input, nodes, leaves_idx>>

\* the input with the record at one position replaced by another record
Tampered(in) ==
    {[in EXCEPT ![i] = r] : i \in 1..Len(in), r \in Records \cup {FreshRecord}}
        \ {in}

\* the claimed roots tried: the empty vector, the tree's root, the digest of
\* a one-byte record
ClaimedRoots == {<<>>, hash_data(<<B(0)>>)} \cup Range(nodes[Len(nodes)])

Verify ==
    /\ Idle
    /\ \E in \in {input, <<>>} \cup Tampered(input), rh \in ClaimedRoots :
        /\ records' = in
        /\ root_hash' = rh
        /\ result' = Bool(verify(in, rh))
    /\ pc' = "verify"
    /\ data' = <<>> /\ hashes' = <<>> /\ level' = 0 /\ current_idx' = 0
    /\ UNCHANGED <<input, nodes, leaves_idx>>

ProveBegin ==
    /\ Idle
    /\ \E d \in Records \cup {FreshRecord} :
        /\ data' = d
        /\ LET found == Lookup(leaves_idx, hash_data(d))
           IN  IF found = None
               THEN /\ pc' = "proved"
                    /\ result' = None
                    /\ current_idx' = 0
               ELSE /\ pc' = "prove"
                    /\ result' = None
                    /\ current_idx' = found[2]
    /\ hashes' = <<>>
    /\ level' = 0
    /\ records' = <<>> /\ root_hash' = <<>>
    /\ UNCHANGED <<input, nodes, leaves_idx>>

ProveStep ==
    /\ pc = "prove"
    /\ level < Len(nodes) - 1
    /\ LET body == ProveBody(nodes[level + 1], current_idx, hashes)
       IN  IF body = Panic
           THEN /\ pc' = "proved"
                /\ result' = Panic
                /\ UNCHANGED <<hashes, level, current_idx>>
           ELSE /\ hashes' = body[2]
                /\ current_idx' = current_idx \div 2
                /\ level' = level + 1
                /\ UNCHANGED <<pc, result>>
    /\ UNCHANGED <<input, nodes, leaves_idx, records, data, root_hash>>

ProveEnd ==
    /\ pc = "prove"
    /\ level >= Len(nodes) - 1
    /\ pc' = "proved"
    /\ result' = Some(hashes)
    /\ UNCHANGED <<input, nodes, leaves_idx, records, data, root_hash, hashes,
                   level, current_idx>>

\* verify_proof(&data[m], &proof.unwrap(), &tree.root()) on prove's own proof
VerifyOwnProof ==
    /\ pc = "proved"
    /\ result[1] = "Some"
    /\ root(nodes) # Panic
    /\ pc' = "own_proof"
    /\ root_hash' = root(nodes)[2]
    /\ result' = Bool(verify_proof(data, hashes, root(nodes)[2]))
    /\ UNCHANGED <<input, nodes, leaves_idx, records, data, hashes, level,
                   current_idx>>

Next ==
    \/ Construct
    \/ Root
    \/ Verify
    \/ ProveBegin
    \/ ProveStep
    \/ ProveEnd
    \/ VerifyOwnProof

Spec == Init /\ [][Next]_vars

----------------------------------------------------------------------------
(* verify_proof on arbitrary data and arbitrary proofs *)

\* the records of these trees: two plain records and a record whose bytes
\* are a digest
ForgeRecords == {<<B(0)>>, <<B(1)>>, hash_data(<<B(0)>>)}

\* every digest stored in the tree
AllNodes(ns) == UNION {Range(ns[k]) : k \in 1..Len(ns)}

\* concatenations of two neighbouring digests of a level, in both orders
NeighbourConcats(ns) ==
    UNION {UNION {{ns[k][i] \o ns[k][i + 1], ns[k][i + 1] \o ns[k][i]} :
                     i \in 1..(Len(ns[k]) - 1)} : k \in 1..Len(ns)}

\* the data tried: plain records, the tree's records, preimages of nodes
ForgeData(in, ns) ==
    {<<>>, <<B(0)>>, <<B(1)>>} \cup Range(in) \cup NeighbourConcats(ns)

\* the sibling vectors tried: the tree's digests, an empty and a plain vector
ForgeSiblings(ns) == AllNodes(ns) \cup {<<>>, <<B(1)>>}

ConstructForge == ConstructFrom(SeqsUpTo(ForgeRecords, MaxForgeLeaves))

VerifyAnyProof ==
    /\ Idle
    /\ root(nodes) # Panic
    /\ \E d \in ForgeData(input, nodes),
          proof \in SeqsUpTo({"Left", "Right"} \X ForgeSiblings(nodes), MaxProofLen) :
        /\ data' = d
        /\ hashes' = proof
        /\ result' = Bool(verify_proof(d, proof, root(nodes)[2]))
    /\ root_hash' = root(nodes)[2]
    /\ pc' = "any_proof"
    /\ UNCHANGED <<input, nodes, leaves_idx, records, level, current_idx>>

NextForge ==
    \/ ConstructForge
    \/ VerifyAnyProof

SpecForge == Init /\ [][NextForge]_vars

----------------------------------------------------------------------------
(* Vocabulary of the properties *)

RECURSIVE CeilLog2(_)
CeilLog2(n) == IF n <= 1 THEN 0 ELSE 1 + CeilLog2((n + 1) \div 2)

RECURSIVE Pow2(_)
Pow2(k) == IF k = 0 THEN 1 ELSE 2 * Pow2(k - 1)

\* the node above leaf idx at some level below the top is the trailing
\* unpaired node of its level
PathPromoted(idx, ns) ==
    \E L \in 0..(Len(ns) - 2) :
        LET i == idx \div Pow2(L)
        IN  i % 2 = 0 /\ i + 1 = Len(ns[L + 1])

\* b is a with exactly one record replaced by a different one
SingleReplacement(a, b) ==
    /\ Len(a) = Len(b)
    /\ Cardinality({i \in 1..Len(a) : a[i] # b[i]}) = 1

HasDuplicate(in) == \E i, j \in 1..Len(in) : i # j /\ in[i] = in[j]

IsDigestSymbol(sym) == sym[1] = "h"

\* the digests a digest commits to: itself and, for every committed digest,
\* a digest that starts or ends its preimage
RECURSIVE Committed(_)
Committed(h) ==
    LET pre == h[1][2]
    IN  {h}
        \cup (IF Len(pre) > 0 /\ IsDigestSymbol(pre[1])
              THEN Committed(<<pre[1]>>) ELSE {})
        \cup (IF Len(pre) > 0 /\ IsDigestSymbol(pre[Len(pre)])
              THEN Committed(<<pre[Len(pre)]>>) ELSE {})

\* no record starts or ends with a digest
NoDigestAtEnds(in) ==
    \A i \in 1..Len(in) :
        Len(in[i]) > 0 =>
            ~IsDigestSymbol(in[i][1]) /\ ~IsDigestSymbol(in[i][Len(in[i])])

\* the preimages of the paired nodes: left child followed by right child
ChildConcats(ns) ==
    UNION {{ns[k][2 * j - 1] \o ns[k][2 * j] : j \in 1..(Len(ns[k]) \div 2)} :
              k \in 1..Len(ns)}

----------------------------------------------------------------------------
(* Properties *)

\* C1: for a non-empty list and a record of it (odd lengths and repeated
\* records included), prove returns a proof, and verify_proof of the
\* record, that proof and the tree's root returns true.
C1_RoundTrip ==
    /\ (pc = "proved" /\ data \in Range(input)) => result[1] = "Some"
    /\ pc = "own_proof" => result = Bool(TRUE)

C1_Witness ==
    /\ pc = "own_proof"
    /\ Len(input) = 5
    /\ HasDuplicate(input)
    /\ data = input[5]
    /\ Len(hashes) = 1
    /\ result = Bool(TRUE)

\* C2: root of the tree built from the empty list returns the empty byte
\* sequence, and root fails for no tree that construct produced.
C2_RootOfEmptyTree ==
    pc = "root" =>
        /\ result # Panic
        /\ (Len(input) = 0 => result = Some(<<>>))

\* C3: for a non-empty list, verify(records, d) is true exactly when d is
\* the root of construct(records).
C3_VerifyAgreesWithConstruct ==
    (pc = "verify" /\ Len(records) > 0) =>
        result = Bool(root_hash = root(construct(records).nodes)[2])

C3_Witness ==
    /\ pc = "verify"
    /\ Len(records) = 5
    /\ records = input
    /\ result = Bool(TRUE)

\* C4: verify of the empty list is true exactly for the empty claimed root;
\* verify of a non-empty list against the empty claimed root is false, the
\* computed root being a non-empty digest.
C4_EmptySentinel ==
    pc = "verify" =>
        /\ Len(records) = 0 => result = Bool(root_hash = <<>>)
        /\ (Len(records) > 0 /\ root_hash = <<>>) => result = Bool(FALSE)
        /\ Len(records) > 0 => Len(VerifyLoop(LeafHashes(records))[1]) > 0

C4_Witness ==
    /\ pc = "verify"
    /\ Len(records) = 0
    /\ root_hash # <<>>
    /\ result = Bool(FALSE)

\* C5: prove of a record whose leaf digest is the leaf digest of no record
\* of the list returns None, without failing; the empty list included.
C5_NonMembership ==
    (pc = "proved" /\ hash_data(data) \notin Range(LeafHashes(input))) =>
        result = None

C5_Witness ==
    /\ pc = "proved"
    /\ Len(input) = 3
    /\ hash_data(data) \notin Range(LeafHashes(input))
    /\ result = None

\* C6: replacing one record of a non-empty list by a different byte
\* sequence makes verify against the original root return false.
C6_TamperDetected ==
    (/\ pc = "verify"
     /\ Len(input) > 0
     /\ SingleReplacement(input, records)
     /\ root_hash = nodes[Len(nodes)][1]) => result = Bool(FALSE)

C6_Witness ==
    /\ pc = "verify"
    /\ Len(input) = 5
    /\ SingleReplacement(input, records)
    /\ records[4] # input[4]
    /\ root_hash = nodes[Len(nodes)][1]
    /\ result = Bool(FALSE)

\* C7: a proof returned for a tree of n >= 1 records has at most
\* ceil(log2(n)) pairs; the single-leaf tree yields a present proof with no
\* pair; a leaf with a promoted node on its path yields fewer pairs than
\* there are levels above the leaves.
C7_ProofLengthBound ==
    (pc = "proved" /\ result[1] = "Some") =>
        /\ Len(result[2]) <= CeilLog2(Len(input))
        /\ Len(input) = 1 => result[2] = <<>>
        /\ PathPromoted(leaves_idx[hash_data(data)], nodes)
               => Len(result[2]) < Len(nodes) - 1

C7_Witness ==
    /\ pc = "proved"
    /\ result[1] = "Some"
    /\ Len(input) = 5
    /\ PathPromoted(leaves_idx[hash_data(data)], nodes)
    /\ Len(result[2]) = 1
    /\ Len(nodes) - 1 = 3

\* C8: level 0 is the leaf digests in input order; each next level has
\* length ceil(len/2), its element j being hash_pair of elements 2j and 2j+1
\* of the level below when both exist and element 2j unchanged otherwise;
\* the last level has one element; a 3-leaf tree has root
\* hash_pair(hash_pair(leaf0, leaf1), leaf2).
C8_LevelStructure ==
    (pc # "init" /\ Len(input) > 0) =>
        /\ Len(nodes[1]) = Len(input)
        /\ \A i \in 1..Len(input) : nodes[1][i] = hash_data(input[i])
        /\ \A k \in 1..(Len(nodes) - 1) :
            /\ 2 * Len(nodes[k + 1]) \in {Len(nodes[k]), Len(nodes[k]) + 1}
            /\ \A j \in 0..(Len(nodes[k + 1]) - 1) :
                nodes[k + 1][j + 1] =
                    IF 2 * j + 1 < Len(nodes[k])
                    THEN hash_concat(nodes[k][2 * j + 1], nodes[k][2 * j + 2])
                    ELSE nodes[k][2 * j + 1]
        /\ Len(nodes[Len(nodes)]) = 1
        /\ Len(input) = 3 =>
               nodes[Len(nodes)][1] =
                   hash_concat(hash_concat(nodes[1][1], nodes[1][2]), nodes[1][3])

C8_Witness ==
    /\ pc = "built"
    /\ Len(input) = 5
    /\ Len(nodes) = 4
    /\ nodes[3][2] = nodes[1][5]
    /\ nodes[4][1] = hash_concat(nodes[3][1], nodes[1][5])

\* C9: at every level the walk of prove visits, the working index is a
\* position of that level, replaying the pairs emitted so far from the leaf
\* digest as verify_proof does yields the digest stored there, and prove
\* never fails.
C9_ProveLoopInvariant ==
    /\ pc = "prove" =>
        /\ level <= Len(nodes) - 1
        /\ current_idx < Len(nodes[level + 1])
        /\ VerifyProofFold(hash_data(data), hashes)
               = nodes[level + 1][current_idx + 1]
    /\ pc = "proved" => result # Panic

C9_Witness ==
    /\ pc = "prove"
    /\ Len(input) = 5
    /\ level = 2
    /\ current_idx = 1
    /\ hashes = <<>>

\* C10 as stated: for a non-empty list, every byte sequence that is none of
\* its records and every proof, verify_proof against the tree's root
\* returns false.
C10_NonMemberAlwaysRejected ==
    (pc = "any_proof" /\ data \notin Range(input)) => result = Bool(FALSE)

\* C10 amended: verify_proof accepts only data whose leaf digest the root
\* commits to; when no record starts or ends with a digest, data that is
\* neither a record nor the concatenation of the two children of a paired
\* node is rejected with every proof.
C10_OnlyCommittedAccepted ==
    pc = "any_proof" =>
        /\ result = Bool(TRUE) => hash_data(data) \in Committed(root_hash)
        /\ (/\ NoDigestAtEnds(input)
            /\ data \notin Range(input)
            /\ data \notin ChildConcats(nodes)) => result = Bool(FALSE)

C10_Witness ==
    /\ pc = "any_proof"
    /\ Len(input) = 3
    /\ NoDigestAtEnds(input)
    /\ data = nodes[1][2] \o nodes[1][1]
    /\ hashes = <<<<"Right", nodes[1][3]>>>>
    /\ result = Bool(FALSE)

====
